---- MODULE Spec2Model ----
(***************************************************************************)
(* Conway's Game of Life on a fixed grid, drawn to a terminal              *)
(* (lonelycodes/conways, src/main.rs).                                     *)
(*                                                                         *)
(* The program is one thread: check_terminal_size, initialize_board, then  *)
(* forever update_board, render_board, wait_for_next_frame.  It ends only  *)
(* by a panic: of the size check, or of a print! whose write to stdout     *)
(* fails; and it stops for ever in a print! whose write to stdout blocks   *)
(* for ever (a pipe nobody reads, a terminal stopped by flow control).     *)
(* The board is                                                            *)
(* a Vec<Vec<Cell>> whose outer index is the x coordinate and whose inner  *)
(* index is the y coordinate; Vecs are modelled as sequences, so the cell  *)
(* with coordinates (x, y) is board[x + 1][y + 1].                         *)
(***************************************************************************)
EXTENDS Integers, Sequences, FiniteSets

VARIABLES
    term,           \* result of termion::terminal_size(): <<>> for Err, <<w, h>> for Ok
    pc,             \* position of main (or of update_board in SpecPass);
                    \* "panicked": the size check failed, "aborted": a print!
                    \* panicked, "blocked": a print! blocks for ever
    board,          \* main's `board`; <<>> before initialize_board has returned
    board_clone,    \* update_board's `board_clone` of the latest pass
    board0,         \* the grid initialize_board returned (history)
    cur,            \* position <<i, j>> of update_board's two loops (SpecPass)
    num_neighbors,  \* update_board's `num_neighbors` for the latest cell (SpecPass)
    out,            \* the print_char calls the latest render_board completed, in order
    elapsed,        \* `elapsed` of the latest wait_for_next_frame, in 1/SubMs ms
    sleep,          \* <<>> when no sleep was requested, <<ms>> for thread::sleep(ms)
    gen,            \* number of update_board calls so far
    frames          \* number of render_board calls that have returned

vars == <<term, pc, board, board_clone, board0, cur, num_neighbors, out,
          elapsed, sleep, gen, frames>>

(***************************************************************************)
(* Constants of the program and bounds of the model.                       *)
(***************************************************************************)
\* main.rs:11 has 130; the grid is scaled down to keep the state space finite.
WINDOW_WIDTH == 5

\* main.rs:12 has 40; scaled down like WINDOW_WIDTH.
WINDOW_HEIGHT == 4

FRAME_DURATION_MS == 220

ALIVE_SYMBOL == "FULL BLOCK"

DEAD_SYMBOL == " "

Alive == "Alive"

Dead == "Dead"

CellState == {Alive, Dead}

\* Number of main-loop iterations explored.
MaxGen == 3

\* Terminal sizes range over WINDOW_* - TermSlack .. WINDOW_* + TermSlack.
TermSlack == 1

\* Durations are measured in 1/SubMs of a millisecond.
SubMs == 2

\* wait_for_next_frame is explored for elapsed times up to this many ms.
MaxElapsedMs == 230

\* Initial grids with at most this many live cells anywhere are explored.
MaxSparse == 2

(***************************************************************************)
(* Machine integers.  Every value of the model is far below 2^16, so the   *)
(* widths only matter where a subtraction could go below zero.             *)
(***************************************************************************)
U16(v) == v % 65536

\* `v as i16` for a u16 v
AsI16(v) == IF v >= 32768 THEN v - 65536 ELSE v

\* u128 subtraction a - b.  Below zero it panics in a debug build and wraps
\* to a value near 2^128 in a release build; both are recorded as -1.
SubU128(a, b) == IF a >= b THEN a - b ELSE -1

(***************************************************************************)
(* Cells and the initializer.                                              *)
(***************************************************************************)
Cell(x, y, state) == [x |-> x, y |-> y, state |-> state]

Coords == (0 .. WINDOW_WIDTH - 1) \X (0 .. WINDOW_HEIGHT - 1)

\* Mutant: the coordinates are stored the wrong way round.
generate_random_cell_swapped(x, y, r1, r2) ==
    Cell(y, x, IF r1 /\ r2 THEN Alive ELSE Dead)

\* r1, r2: the two rand::random() booleans
generate_random_cell(x, y, r1, r2) ==
    Cell(x, y, IF r1 /\ r2 THEN Alive ELSE Dead)

\* The row built by the inner loop for outer index i: cells j = 0 .. HEIGHT-1.
RECURSIVE InitRow(_, _, _)
InitRow(i, j, coin) ==
    IF j = WINDOW_HEIGHT THEN <<>>
    ELSE <<generate_random_cell(i, j, <<i, j>> \in coin.first,
                                <<i, j>> \in coin.second)>>
         \o InitRow(i, j + 1, coin)

RECURSIVE InitRows(_, _)
InitRows(i, coin) ==
    IF i = WINDOW_WIDTH THEN <<>>
    ELSE <<InitRow(i, 0, coin)>> \o InitRows(i + 1, coin)

\* coin.first / coin.second: the coordinates at which the first / second
\* random boolean comes up true.
initialize_board(coin) == InitRows(0, coin)

(***************************************************************************)
(* The stepper.                                                            *)
(***************************************************************************)
InRange(x, y) ==
    ~(x < 0 \/ y < 0 \/ x >= AsI16(WINDOW_WIDTH) \/ y >= AsI16(WINDOW_HEIGHT))

\* Mutant: the board is treated as a torus.
RECURSIVE CountFromWrapped(_, _, _)
CountFromWrapped(cell, b, n) ==
    IF n = 9 THEN 0
    ELSE LET i == (n \div 3) - 1
             j == (n % 3) - 1
             x == (AsI16(cell.x) + i) % WINDOW_WIDTH
             y == (AsI16(cell.y) + j) % WINDOW_HEIGHT
         IN  (IF i = 0 /\ j = 0 THEN 0
              ELSE IF b[x + 1][y + 1].state = Alive THEN 1 ELSE 0)
             + CountFromWrapped(cell, b, n + 1)

count_neighbors_wrapped(cell, b) == CountFromWrapped(cell, b, 0)

\* The two loops of count_neighbors from their n-th iteration on:
\* iteration n has i = n / 3 - 1 and j = n % 3 - 1.
RECURSIVE CountFrom(_, _, _)
CountFrom(cell, b, n) ==
    IF n = 9 THEN 0
    ELSE LET i == (n \div 3) - 1
             j == (n % 3) - 1
             x == AsI16(cell.x) + i
             y == AsI16(cell.y) + j
         IN  (IF i = 0 /\ j = 0 THEN 0
              ELSE IF ~InRange(x, y) THEN 0
              ELSE IF b[x + 1][y + 1].state = Alive THEN 1 ELSE 0)
             + CountFrom(cell, b, n + 1)

count_neighbors(cell, b) == CountFrom(cell, b, 0)

\* Mutant: no cell is ever born.
NextStateNoBirth(state, n) ==
    IF state = Alive /\ n \in 2 .. 3 THEN Alive ELSE Dead

\* Mutant: a live cell survives with three neighbours only.
NextStateStrict(state, n) ==
    IF state = Alive /\ n = 3 THEN Alive
    ELSE IF state = Dead /\ n = 3 THEN Alive
    ELSE Dead

\* The match of update_board.
NextState(state, n) ==
    IF state = Alive /\ n \in 2 .. 3 THEN Alive
    ELSE IF state = Dead /\ n = 3 THEN Alive
    ELSE Dead

\* Mutant: the neighbours are counted in the board that is being written.
NeighborsInPlace(cell, b, clone) == count_neighbors(cell, b)

\* `num_neighbors` of the loop body for `cell` of board b, whose clone is `clone`.
Neighbors(cell, b, clone) == count_neighbors(cell, clone)

\* The match of the loop body and its assignment: only the state is assigned.
CellStep(cell, b, clone) ==
    [cell EXCEPT !.state = NextState(cell.state, Neighbors(cell, b, clone))]

\* One execution of the loop body for the cell at Vec position (i, j).
UpdateCell(b, clone, i, j) == [b EXCEPT ![i][j] = CellStep(@, b, clone)]

\* The inner loop from the j-th cell of the i-th row on.
RECURSIVE UpdateRowFrom(_, _, _, _)
UpdateRowFrom(b, clone, i, j) ==
    IF j > Len(clone[i]) THEN b
    ELSE UpdateRowFrom(UpdateCell(b, clone, i, j), clone, i, j + 1)

\* The outer loop from the i-th row on.  The clone has the lengths of the
\* board, and it is the clone the bounds of the loops are read from.
RECURSIVE UpdateFrom(_, _, _)
UpdateFrom(b, clone, i) ==
    IF i > Len(clone) THEN b
    ELSE UpdateFrom(UpdateRowFrom(b, clone, i, 1), clone, i + 1)

\* update_board: clone, then visit every cell in Vec order.
update_board(b) == UpdateFrom(b, b, 1)

\* The position the two iterators visit after (i, j); i = Len(b) + 1 at the end.
NextPos(b, i, j) == IF j < Len(b[i]) THEN <<i, j + 1>> ELSE <<i + 1, 1>>

(***************************************************************************)
(* The renderer.                                                           *)
(***************************************************************************)
Glyph(state) == IF state = Alive THEN ALIVE_SYMBOL ELSE DEAD_SYMBOL

\* Mutant: cursor::Goto is given the 0-based coordinates.
print_char_zero_based(x, y, c) ==
    [col |-> x, row |-> y, glyph |-> c,
     park |-> <<U16(WINDOW_WIDTH + 1), U16(WINDOW_HEIGHT + 1)>>]

\* One print!: Goto(column, row), the glyph, Goto(parking position).
print_char(x, y, c) ==
    [col |-> U16(x + 1), row |-> U16(y + 1), glyph |-> c,
     park |-> <<U16(WINDOW_WIDTH + 1), U16(WINDOW_HEIGHT + 1)>>]

\* The inner loop from the j-th cell of `row` on.
RECURSIVE RenderRowFrom(_, _)
RenderRowFrom(row, j) ==
    IF j > Len(row) THEN <<>>
    ELSE <<print_char(row[j].x, row[j].y, Glyph(row[j].state))>>
         \o RenderRowFrom(row, j + 1)

\* The outer loop from the i-th row on.
RECURSIVE RenderFrom(_, _)
RenderFrom(b, i) ==
    IF i > Len(b) THEN <<>>
    ELSE RenderRowFrom(b[i], 1) \o RenderFrom(b, i + 1)

\* render_board: the sequence of print_char calls it makes.
render_board(b) == RenderFrom(b, 1)

(***************************************************************************)
(* The frame scheduler.                                                    *)
(***************************************************************************)
\* Duration::as_millis of a duration held in 1/SubMs ms: whole milliseconds.
as_millis(d) == d \div SubMs

\* Mutant: the remainder is computed without the comparison.
SleepRequestUnguarded(ms) == <<SubU128(FRAME_DURATION_MS, ms)>>

\* The sleep wait_for_next_frame requests when `elapsed.as_millis()` is ms.
\* The cast of the remainder to u64 keeps it: it is at most FRAME_DURATION_MS.
SleepRequest(ms) ==
    IF ms < FRAME_DURATION_MS THEN <<SubU128(FRAME_DURATION_MS, ms)>> ELSE <<>>

(***************************************************************************)
(* Inputs: terminal sizes, random draws and elapsed times.                 *)
(***************************************************************************)
Max(a, b) == IF a >= b THEN a ELSE b

TermResults ==
    {<<>>}
    \cup ((Max(WINDOW_WIDTH - TermSlack, 0) .. WINDOW_WIDTH + TermSlack)
          \X (Max(WINDOW_HEIGHT - TermSlack, 0) .. WINDOW_HEIGHT + TermSlack))

\* The cells of the grid at distance at most 1 from c, c included.
Around(c) ==
    {d \in Coords : d[1] - c[1] \in -1 .. 1 /\ d[2] - c[2] \in -1 .. 1}

RECURSIVE SparseSets(_)
SparseSets(k) ==
    IF k = 0 THEN {{}}
    ELSE LET S == SparseSets(k - 1)
         IN  S \cup {s \cup {c} : s \in S, c \in Coords}

Centre == <<WINDOW_WIDTH \div 2, WINDOW_HEIGHT \div 2>>

\* Sets of live cells: few cells anywhere, or any cells around the centre,
\* around the first corner or around the last corner.
Patterns ==
    SparseSets(MaxSparse)
    \cup SUBSET Around(Centre)
    \cup SUBSET Around(<<0, 0>>)
    \cup SUBSET Around(<<WINDOW_WIDTH - 1, WINDOW_HEIGHT - 1>>)

\* Random draws: the second boolean always true, or the first always true.
Draws(Sets) ==
    {[first |-> P, second |-> Coords] : P \in Sets}
    \cup {[first |-> Coords, second |-> P] : P \in SparseSets(1)}

\* The draws tried where the claims are about the generations of a grid.
LifeCoins == Draws(Patterns)

HorizontalBlinker(c) == {<<c[1] - 1, c[2]>>, c, <<c[1] + 1, c[2]>>}

VerticalBlinker(c) == {<<c[1], c[2] - 1>>, c, <<c[1], c[2] + 1>>}

\* The draws tried by the main loop: cells of a blinker, or any one cell.
LoopCoins == Draws(SUBSET HorizontalBlinker(Centre))

\* Elapsed times tried by the main loop: just under and exactly the interval.
LoopElapsed == {FRAME_DURATION_MS * SubMs - 1, FRAME_DURATION_MS * SubMs}

AllElapsed == 0 .. MaxElapsedMs * SubMs

(***************************************************************************)
(* main.                                                                   *)
(***************************************************************************)
\* Mutant: the two comparisons are joined by `&&`.
check_terminal_size_and(t) ==
    IF t = <<>> THEN "panicked"
    ELSE IF t[1] < WINDOW_WIDTH /\ t[2] < WINDOW_HEIGHT THEN "panicked"
    ELSE "init"

\* Where main is after check_terminal_size when terminal_size() returned t:
\* unwrap panics on Err, panic! is called when the terminal is too small.
check_terminal_size(t) ==
    IF t = <<>> THEN "panicked"
    ELSE IF t[1] < WINDOW_WIDTH \/ t[2] < WINDOW_HEIGHT THEN "panicked"
    ELSE "init"

CheckTerminalSize ==
    /\ pc = "check"
    /\ pc' = check_terminal_size(term)
    /\ UNCHANGED <<term, board, board_clone, board0, cur, num_neighbors, out,
                   elapsed, sleep, gen, frames>>

\* initialize_board when the random draws are one of Coins.
InitializeBoardFrom(Coins) ==
    /\ pc = "init"
    /\ \E coin \in Coins :
          /\ board' = initialize_board(coin)
          /\ board0' = board'
    /\ pc' = "update"
    /\ UNCHANGED <<term, board_clone, cur, num_neighbors, out, elapsed, sleep,
                   gen, frames>>

\* Mutant: the loop goes from update_board straight to wait_for_next_frame.
UpdateSkipRender ==
    /\ pc = "update"
    /\ gen < MaxGen
    /\ board_clone' = board
    /\ board' = update_board(board)
    /\ gen' = gen + 1
    /\ pc' = "wait"
    /\ UNCHANGED <<term, board0, cur, num_neighbors, out, elapsed, sleep, frames>>

Update ==
    /\ pc = "update"
    /\ gen < MaxGen
    /\ board_clone' = board
    /\ board' = update_board(board)
    /\ gen' = gen + 1
    /\ pc' = "render"
    /\ UNCHANGED <<term, board0, cur, num_neighbors, out, elapsed, sleep, frames>>

\* render_board when every write succeeds.
Render ==
    /\ pc = "render"
    /\ pc' = "wait"
    /\ out' = render_board(board)
    /\ frames' = frames + 1
    /\ UNCHANGED <<term, board, board_clone, board0, cur, num_neighbors,
                   elapsed, sleep, gen>>

\* The print! calls of a render_board: any of them can be the one whose
\* write to stdout fails or blocks (stdout is buffered, and the buffer is
\* written out where it happens to be full).
Writes == 1 .. WINDOW_WIDTH * WINDOW_HEIGHT

\* render_board when the write of its k-th print! fails: print! panics, the
\* process is aborted in the middle of the frame and the call never returns.
RenderFails ==
    /\ pc = "render"
    /\ pc' = "aborted"
    /\ \E calls \in {render_board(board)} :
          \E k \in Writes : out' = SubSeq(calls, 1, k - 1)
    /\ UNCHANGED <<term, board, board_clone, board0, cur, num_neighbors,
                   elapsed, sleep, gen, frames>>

\* render_board when the write of its k-th print! blocks for ever: the
\* process stays alive inside the call, which never returns.
RenderBlocks ==
    /\ pc = "render"
    /\ pc' = "blocked"
    /\ \E calls \in {render_board(board)} :
          \E k \in Writes : out' = SubSeq(calls, 1, k - 1)
    /\ UNCHANGED <<term, board, board_clone, board0, cur, num_neighbors,
                   elapsed, sleep, gen, frames>>

\* wait_for_next_frame when the time since last_update is one of E.
WaitForNextFrame(E) ==
    /\ pc = "wait"
    /\ \E e \in E :
          /\ elapsed' = e
          /\ sleep' = SleepRequest(as_millis(e))
    /\ pc' = "update"
    /\ UNCHANGED <<term, board, board_clone, board0, cur, num_neighbors, out,
                   gen, frames>>

InitializeBoard == InitializeBoardFrom(LoopCoins)

Wait == WaitForNextFrame(LoopElapsed)

Init ==
    /\ term \in TermResults
    /\ pc = "check"
    /\ board = <<>>
    /\ board_clone = <<>>
    /\ board0 = <<>>
    /\ cur = <<1, 1>>
    /\ num_neighbors = 0
    /\ out = <<>>
    /\ elapsed = 0
    /\ sleep = <<>>
    /\ gen = 0
    /\ frames = 0

Next ==
    \/ CheckTerminalSize
    \/ InitializeBoard
    \/ Update
    \/ Render
    \/ RenderFails
    \/ RenderBlocks
    \/ Wait

Spec == Init /\ [][Next]_vars

\* main is the only thread, and it goes on unless it has panicked or is
\* blocked for ever in a write, which are the steps to "panicked", "aborted"
\* and "blocked": a write that blocks only for a time is a Render that
\* returns later.
FairSpec == Spec /\ WF_vars(Next)

(***************************************************************************)
(* update_board called again and again on many initial grids, as main's    *)
(* loop calls it; what main does between two calls leaves the grid alone.  *)
(***************************************************************************)
UpdateBoard ==
    /\ pc = "update"
    /\ gen < MaxGen
    /\ board_clone' = board
    /\ board' = update_board(board)
    /\ gen' = gen + 1
    /\ UNCHANGED <<term, pc, board0, cur, num_neighbors, out, elapsed, sleep,
                   frames>>

\* initialize_board has returned.
InitLife ==
    /\ term = <<WINDOW_WIDTH, WINDOW_HEIGHT>>
    /\ pc = "update"
    /\ \E coin \in LifeCoins : board = initialize_board(coin)
    /\ board0 = board
    /\ board_clone = <<>>
    /\ cur = <<1, 1>>
    /\ num_neighbors = 0
    /\ out = <<>>
    /\ elapsed = 0
    /\ sleep = <<>>
    /\ gen = 0
    /\ frames = 0

NextLife == UpdateBoard

SpecLife == InitLife /\ [][NextLife]_vars

(***************************************************************************)
(* One update_board call, one cell at a time.                              *)
(***************************************************************************)
BeginPass ==
    /\ pc = "update"
    /\ board_clone' = board
    /\ cur' = <<1, 1>>
    /\ pc' = "pass"
    /\ UNCHANGED <<term, board, board0, num_neighbors, out, elapsed, sleep,
                   gen, frames>>

StepCell ==
    /\ pc = "pass"
    /\ cur[1] <= Len(board)
    /\ num_neighbors' = Neighbors(board[cur[1]][cur[2]], board, board_clone)
    /\ board' = UpdateCell(board, board_clone, cur[1], cur[2])
    /\ cur' = NextPos(board, cur[1], cur[2])
    /\ UNCHANGED <<term, pc, board_clone, board0, out, elapsed, sleep, gen, frames>>

EndPass ==
    /\ pc = "pass"
    /\ cur[1] > Len(board)
    /\ gen' = gen + 1
    /\ pc' = "render"
    /\ UNCHANGED <<term, board, board_clone, board0, cur, num_neighbors, out,
                   elapsed, sleep, frames>>

\* main has passed the size check and initialize_board has returned.
InitPass ==
    /\ term = <<WINDOW_WIDTH, WINDOW_HEIGHT>>
    /\ pc = "update"
    /\ \E coin \in LifeCoins : board = initialize_board(coin)
    /\ board0 = board
    /\ board_clone = <<>>
    /\ cur = <<1, 1>>
    /\ num_neighbors = 0
    /\ out = <<>>
    /\ elapsed = 0
    /\ sleep = <<>>
    /\ gen = 0
    /\ frames = 0

NextPass ==
    \/ BeginPass
    \/ StepCell
    \/ EndPass

SpecPass == InitPass /\ [][NextPass]_vars

(***************************************************************************)
(* One wait_for_next_frame call, for every elapsed time.                   *)
(***************************************************************************)
WaitAny == WaitForNextFrame(AllElapsed)

\* main has drawn the first frame of an empty grid.
InitFrame ==
    /\ term = <<WINDOW_WIDTH, WINDOW_HEIGHT>>
    /\ pc = "wait"
    /\ board0 = initialize_board([first |-> {}, second |-> {}])
    /\ board_clone = board0
    /\ board = update_board(board0)
    /\ cur = <<1, 1>>
    /\ num_neighbors = 0
    /\ out = render_board(board)
    /\ elapsed = 0
    /\ sleep = <<>>
    /\ gen = 1
    /\ frames = 1

NextFrame == WaitAny

SpecFrame == InitFrame /\ [][NextFrame]_vars

(***************************************************************************)
(* Vocabulary of the properties.                                           *)
(***************************************************************************)
\* The state of the cell stored at container index [x][y] of grid b.
StateAt(b, c) == b[c[1] + 1][c[2] + 1].state

\* The cells of the grid at one of the 8 offsets from c.
Candidates(c) == Around(c) \ {c}

\* The number of live cells of grid b among the candidates of c.
LiveNeighbours(b, c) ==
    Cardinality({d \in Candidates(c) : StateAt(b, d) = Alive})

LiveCells(b) == {c \in Coords : StateAt(b, c) = Alive}

\* The coordinate the loops of update_board visit at Vec position (i, j).
CoordAt(i, j) == <<i - 1, j - 1>>

\* Whether update_board's loops have already visited the cell at c.
Visited(c) ==
    \/ c[1] + 1 < cur[1]
    \/ c[1] + 1 = cur[1] /\ c[2] + 1 < cur[2]

\* The coordinate of the cell the loop body ran for last.
LastVisited ==
    IF cur[2] > 1 THEN CoordAt(cur[1], cur[2] - 1)
    ELSE CoordAt(cur[1] - 1, WINDOW_HEIGHT)

Corners ==
    {<<0, 0>>, <<0, WINDOW_HEIGHT - 1>>, <<WINDOW_WIDTH - 1, 0>>,
     <<WINDOW_WIDTH - 1, WINDOW_HEIGHT - 1>>}

RECURSIVE Generation(_, _)
Generation(b, k) == IF k = 0 THEN b ELSE update_board(Generation(b, k - 1))

\* Centres of horizontal blinkers with a dead cell between them and every edge.
PaddedCentres ==
    {c \in Coords : /\ c[1] - 1 >= 1
                    /\ c[1] + 1 <= WINDOW_WIDTH - 2
                    /\ c[2] >= 1
                    /\ c[2] <= WINDOW_HEIGHT - 2}

LoopPcs == {"update", "render", "wait"}

\* Where main is when a print! of render_board has panicked or blocks for ever.
RenderStops == {"aborted", "blocked"}

TooSmall(t) == t[1] < WINDOW_WIDTH \/ t[2] < WINDOW_HEIGHT

\* The length of the latest tick, work plus requested sleep, in 1/SubMs ms.
TickLength == elapsed + (IF sleep = <<>> THEN 0 ELSE sleep[1] * SubMs)

(***************************************************************************)
(* Properties.                                                             *)
(***************************************************************************)
\* C1: after an update_board call a cell is Alive exactly when it was Alive
\* in the grid before the call and had 2 or 3 live neighbours there, or was
\* Dead and had exactly 3; otherwise it is Dead.
C1_RuleTable ==
    gen > 0 =>
        \A c \in Coords :
            LET s == StateAt(board_clone, c)
                n == LiveNeighbours(board_clone, c)
            IN  /\ StateAt(board, c) \in CellState
                /\ StateAt(board, c) = Alive
                      <=> \/ s = Alive /\ n \in {2, 3}
                          \/ s = Dead /\ n = 3

\* A pass in which a live cell with 8 live neighbours died, a live cell with
\* 3 survived, a live cell with 1 died and a dead cell with 3 was born.
C1_Witness ==
    /\ gen > 0
    /\ \E c \in Coords :
          /\ StateAt(board_clone, c) = Alive
          /\ LiveNeighbours(board_clone, c) = 8
          /\ StateAt(board, c) = Dead
    /\ \E c \in Coords :
          /\ StateAt(board_clone, c) = Alive
          /\ LiveNeighbours(board_clone, c) = 3
          /\ StateAt(board, c) = Alive
    /\ \E c \in Coords :
          /\ StateAt(board_clone, c) = Dead
          /\ LiveNeighbours(board_clone, c) = 3
          /\ StateAt(board, c) = Alive

\* C2: the count update_board obtains for a cell is the number of live cells
\* among the in-range cells at the 8 offsets around it, the cell itself and
\* the cells of the opposite edge excluded; a corner cell counts at most 3.
C2_NeighbourCount ==
    (pc = "pass" /\ cur # <<1, 1>>) =>
        /\ num_neighbors = LiveNeighbours(board0, LastVisited)
        /\ Candidates(LastVisited) \subseteq Coords
        /\ LastVisited \notin Candidates(LastVisited)
        /\ LastVisited \in Corners => num_neighbors <= 3

\* The first corner was counted: one of its neighbours was alive and so was
\* a cell of the opposite edge, which a torus would have counted as well.
C2_Witness ==
    /\ pc = "pass"
    /\ cur = <<1, 2>>
    /\ num_neighbors = 1
    /\ \E y \in 0 .. 1 : StateAt(board0, <<WINDOW_WIDTH - 1, y>>) = Alive

\* C3: during an update_board call the clone stays the grid the call started
\* with, every cell already visited holds the rule applied to that grid, and
\* every cell not yet visited is untouched.
C3_SnapshotIsolation ==
    pc = "pass" =>
        /\ board_clone = board0
        /\ \A c \in Coords :
              IF Visited(c)
              THEN StateAt(board, c)
                      = NextState(StateAt(board0, c), LiveNeighbours(board0, c))
              ELSE StateAt(board, c) = StateAt(board0, c)

\* A finished pass in which some cell's neighbours changed before it was
\* visited, so that counting in the written board would have changed its fate.
C3_Witness ==
    /\ pc = "pass"
    /\ cur[1] > Len(board)
    /\ \E c \in Coords :
          /\ LiveNeighbours(board, c) # LiveNeighbours(board0, c)
          /\ StateAt(board, c)
                # NextState(StateAt(board0, c),
                            Cardinality({d \in Candidates(c) :
                                (IF d[1] < c[1] \/ (d[1] = c[1] /\ d[2] < c[2])
                                 THEN StateAt(board, d)
                                 ELSE StateAt(board0, d)) = Alive}))

\* C4: the size check is never entered again once left; from it main panics
\* when the terminal is narrower than WIDTH or lower than HEIGHT, with no grid
\* created, no step and no render, and otherwise goes on to create the grid.
C4_Safe ==
    /\ pc = "check" => board = <<>> /\ gen = 0 /\ frames = 0
    /\ pc = "panicked" =>
          /\ term = <<>> \/ TooSmall(term)
          /\ board = <<>> /\ board0 = <<>> /\ out = <<>>
          /\ gen = 0 /\ frames = 0
    /\ pc \notin {"check", "panicked"} => term # <<>> /\ ~TooSmall(term)

C4_Step ==
    /\ pc' # "check"
    /\ pc = "panicked" => pc' = "panicked"
    /\ (pc = "check" /\ term # <<>> /\ TooSmall(term)) =>
          pc' = "panicked" /\ board' = <<>>
    /\ (pc = "check" /\ term # <<>> /\ ~TooSmall(term)) => pc' = "init"
    /\ pc = "init" => pc' = "update" /\ board' # <<>>

C4_SizeCheck == [](C4_Safe) /\ [][C4_Step]_vars

\* The check failed because only the height was too small.
C4_Witness ==
    /\ pc = "panicked"
    /\ term # <<>>
    /\ term[1] >= WINDOW_WIDTH
    /\ term[2] < WINDOW_HEIGHT

\* C5 as stated: once the grid exists main never leaves its loop, which
\* goes from step to render to wait and back; a render follows each step, so
\* that the frame on the screen after the k-th render is generation k.
C5_SafeStated ==
    /\ pc = "render" => gen = frames + 1
    /\ pc \in {"wait", "update"} => gen = frames
    /\ pc = "wait" =>
          /\ board = Generation(board0, frames)
          /\ out = render_board(Generation(board0, frames))

C5_StepStated ==
    /\ pc \in LoopPcs => pc' \in LoopPcs
    /\ pc = "update" => pc' = "render" /\ gen' = gen + 1 /\ frames' = frames
    /\ pc = "render" => pc' = "wait" /\ frames' = frames + 1 /\ gen' = gen
    /\ pc = "wait" => pc' = "update" /\ frames' = frames /\ gen' = gen

C5_NeverTerminates ==
    /\ [](C5_SafeStated)
    /\ [][C5_StepStated]_vars
    /\ (pc = "render") ~> (pc = "wait")
    /\ (pc = "update" /\ gen < MaxGen) ~> (pc = "render")

\* C5, amended: once the grid exists main leaves its loop only from
\* render_board, by a print! that panics or that blocks for ever; until then
\* the loop goes from step to render to wait and back; each step is followed
\* by a render that returns, aborts the process or blocks, and the frame on
\* the screen after the k-th render that returned is generation k of the
\* initial grid.
C5_Safe ==
    /\ pc = "render" => gen = frames + 1
    /\ pc \in RenderStops => gen = frames + 1
    /\ pc \in {"wait", "update"} => gen = frames
    /\ pc = "wait" =>
          /\ board = Generation(board0, frames)
          /\ out = render_board(Generation(board0, frames))

C5_Step ==
    /\ pc \in LoopPcs => pc' \in LoopPcs \cup RenderStops
    /\ pc' \in RenderStops => pc = "render"
    /\ pc = "update" => pc' = "render" /\ gen' = gen + 1 /\ frames' = frames
    /\ pc = "render" =>
          /\ gen' = gen /\ board' = board
          /\ \/ pc' = "wait" /\ frames' = frames + 1
             \/ pc' \in RenderStops /\ frames' = frames
    /\ pc = "wait" => pc' = "update" /\ frames' = frames /\ gen' = gen

C5_LoopOrder ==
    /\ [](C5_Safe)
    /\ [][C5_Step]_vars
    /\ (pc = "render") ~> (pc = "wait" \/ pc \in RenderStops)
    /\ (pc = "update" /\ gen < MaxGen) ~> (pc = "render")
    /\ (pc = "wait") ~> (pc = "update")

\* The second frame is on the screen and differs from the first.
C5_Witness ==
    /\ pc = "wait"
    /\ frames = 2
    /\ board # board_clone

\* C6: once created, the grid has WIDTH columns of HEIGHT cells and the cell
\* at container index [x][y] stores the coordinates (x, y).
C6_Coordinates ==
    board # <<>> =>
        /\ Len(board) = WINDOW_WIDTH
        /\ \A i \in 1 .. Len(board) :
              /\ Len(board[i]) = WINDOW_HEIGHT
              /\ \A j \in 1 .. Len(board[i]) :
                    /\ board[i][j].x = i - 1
                    /\ board[i][j].y = j - 1
                    /\ <<board[i][j].x, board[i][j].y>> \in Coords
        /\ Cardinality({<<board[i][j].x, board[i][j].y>> :
                            i \in 1 .. WINDOW_WIDTH, j \in 1 .. WINDOW_HEIGHT})
              = WINDOW_WIDTH * WINDOW_HEIGHT

\* Two steps were made and each changed cell states.
C6_Witness ==
    /\ pc = "render"
    /\ gen = 2
    /\ board # board_clone
    /\ board_clone # board0

\* C7: a horizontal blinker with padding is the vertical blinker through the
\* same centre after one step, which is another grid, and is itself again
\* after two steps.
C7_Blinker ==
    \A c \in PaddedCentres :
        (board0 # <<>> /\ LiveCells(board0) = HorizontalBlinker(c)) =>
            /\ gen = 1 => LiveCells(board) = VerticalBlinker(c) /\ board # board0
            /\ gen = 2 => board = board0 /\ board_clone # board0

\* The second step has been made from a padded horizontal blinker.
C7_Witness ==
    /\ gen = 2
    /\ \E c \in PaddedCentres : LiveCells(board0) = HorizontalBlinker(c)

\* C8: render_board makes one print_char call per cell, in Vec order: for the
\* cell (x, y) the cursor goes to column x + 1, row y + 1, the glyph of the
\* cell's state is written and the cursor goes to the parking position; the
\* grid is the same after the call.
C8_Safe ==
    (pc \in {"wait", "update"} /\ frames > 0) =>
        /\ Len(out) = WINDOW_WIDTH * WINDOW_HEIGHT
        /\ \A c \in Coords :
              /\ out[c[1] * WINDOW_HEIGHT + c[2] + 1]
                    = [col |-> c[1] + 1, row |-> c[2] + 1,
                       glyph |-> IF StateAt(board, c) = Alive
                                 THEN ALIVE_SYMBOL ELSE DEAD_SYMBOL,
                       park |-> <<WINDOW_WIDTH + 1, WINDOW_HEIGHT + 1>>]
              /\ Cardinality({k \in 1 .. Len(out) :
                                 out[k].col = c[1] + 1 /\ out[k].row = c[2] + 1}) = 1

C8_Step == pc = "render" => board' = board

C8_Render == [](C8_Safe) /\ [][C8_Step]_vars

\* A frame with both glyphs is on the screen.
C8_Witness ==
    /\ pc = "wait"
    /\ \E k \in 1 .. Len(out) : out[k].glyph = ALIVE_SYMBOL
    /\ \E k \in 1 .. Len(out) : out[k].glyph = DEAD_SYMBOL

\* C9: wait_for_next_frame requests a sleep of 220 - elapsed ms when fewer
\* than 220 whole ms have elapsed and none otherwise; the request is between
\* 0 and 220 ms and the tick lasts at least 220 ms.
C9_Pacing ==
    (pc = "update" /\ frames > 0) =>
        /\ as_millis(elapsed) < FRAME_DURATION_MS =>
              sleep = <<FRAME_DURATION_MS - as_millis(elapsed)>>
        /\ as_millis(elapsed) >= FRAME_DURATION_MS => sleep = <<>>
        /\ sleep # <<>> => sleep[1] >= 0 /\ sleep[1] <= FRAME_DURATION_MS
        /\ TickLength >= FRAME_DURATION_MS * SubMs

\* The work took longer than the interval and no sleep was requested.
C9_Witness ==
    /\ pc = "update"
    /\ frames > 0
    /\ as_millis(elapsed) > FRAME_DURATION_MS
    /\ sleep = <<>>

\* C10: once the size check has passed, every position the renderer moves
\* the cursor to, the parking position included, is inside the terminal.
C10_InsideTerminal ==
    (pc \in {"wait", "update"} /\ frames > 0) =>
        \A k \in 1 .. Len(out) :
            /\ out[k].col \in 1 .. term[1]
            /\ out[k].row \in 1 .. term[2]
            /\ out[k].park[1] \in 1 .. term[1]
            /\ out[k].park[2] \in 1 .. term[2]

====
